---- MODULE Spec2Model ----
(***************************************************************************)
(* LoadingScenarioObserver (components/performance_manager/scenarios):     *)
(* the per-tier counts of loading pages, the scenario derived from them    *)
(* and its publication to the global scenario cell.                        *)
(***************************************************************************)
EXTENDS Integers, FiniteSets, Sequences, TLC

\* ------------------------------------------------------------------ bounds
\* Number of page nodes the graph can hold.
MaxPages == 2
\* Width of size_t in the model, in bits (the build has 64).
SizeBits == 2
\* Number of page nodes of the graph whose owner and graph break the rules.
MaxPagesAny == 1
\* Number of notifications the graph fails to deliver (SpecAny).
MaxBroken == 1
\* Page nodes of the graph where handlers run statement by statement.
MaxPagesSteps == 1

SizeMax == 2 ^ SizeBits - 1
PageIds == 1 .. MaxPages
PageIdsAny == 1 .. MaxPagesAny
PageIdsSteps == 1 .. MaxPagesSteps
Sizes == 0 .. SizeMax

\* ------------------------------------------------------------- data types
LoadingStates ==
    {"kLoadingNotStarted", "kLoading", "kLoadingTimedOut", "kLoadedBusy",
     "kLoadedIdle"}

LoadingScenarios ==
    {"kNoPageLoading", "kBackgroundPageLoading", "kVisiblePageLoading",
     "kFocusedPageLoading"}

\* What the observer reads off a PageNode: GetLoadingState(), IsVisible(),
\* IsFocused(); present says whether the node is in the graph.
PageNodes ==
    [present : {TRUE}, state : LoadingStates, visible : BOOLEAN,
     focused : BOOLEAN]

AbsentPage ==
    [present |-> FALSE, state |-> "kLoadingNotStarted", visible |-> FALSE,
     focused |-> FALSE]

\* LoadingCounts{}: the three size_t members, all zero.
LoadingCounts ==
    [focused_loading_pages : Sizes, visible_loading_pages : Sizes,
     loading_pages : Sizes]

ZeroCounts ==
    [focused_loading_pages |-> 0, visible_loading_pages |-> 0,
     loading_pages |-> 0]

VARIABLES
    pages,      \* the graph's page nodes: [PageIds -> PageNodes \cup {AbsentPage}]
    counts,     \* global_counts_
    published,  \* the global loading scenario cell
    attached,   \* the observer is registered with the graph
    fatal,      \* a CHECK failed: the process is terminated
    last,       \* history: the step taken last: its name, the counts and the
                \* published value it started from, its stores to the cell
    call,       \* history: the last Increment/Decrement call of that step
    broken,     \* number of notifications the graph failed to deliver
    run,        \* where the observer's sequence is inside a handler
    seen,       \* history: what the reader thread loaded last, and when
    readable    \* the stores to the cell a relaxed load may still return

vars == <<pages, counts, published, attached, fatal, last, call, broken,
          run, seen, readable>>

\* ---------------------------------------------------------- counting core
\* A predicate that takes a loaded, still busy page as not loading.
StateIsLoadingNotBusy(loading_state) ==
    loading_state = "kLoading"

StateIsLoading(loading_state) ==
    CASE loading_state \in {"kLoadingNotStarted", "kLoadingTimedOut", "kLoadedIdle"} -> FALSE
      [] loading_state \in {"kLoading", "kLoadedBusy"} -> TRUE

\* An increment that wraps to zero past the maximum instead of failing.
CheckIncrementWrap(num) ==
    [ok |-> TRUE, num |-> (num + 1) % (SizeMax + 1)]

\* base::CheckAdd(num, 1).ValueOrDie(): ok is FALSE when the CHECK fails, and
\* then num is never assigned.
CheckIncrement(num) ==
    IF num + 1 > SizeMax
    THEN [ok |-> FALSE, num |-> num]
    ELSE [ok |-> TRUE, num |-> num + 1]

\* A decrement that wraps below zero instead of failing.
CheckDecrementWrap(num) ==
    [ok |-> TRUE, num |-> (num - 1) % (SizeMax + 1)]

\* base::CheckSub(num, 1).ValueOrDie().
CheckDecrement(num) ==
    IF num - 1 < 0
    THEN [ok |-> FALSE, num |-> num]
    ELSE [ok |-> TRUE, num |-> num - 1]

\* A derivation that tests the visible tier before the focused one.
GetScenarioVisibleFirst(c) ==
    IF c.visible_loading_pages > 0 THEN "kVisiblePageLoading"
    ELSE IF c.focused_loading_pages > 0 THEN "kFocusedPageLoading"
    ELSE IF c.loading_pages > 0 THEN "kBackgroundPageLoading"
    ELSE "kNoPageLoading"

GetScenario(c) ==
    IF c.focused_loading_pages > 0 THEN "kFocusedPageLoading"
    ELSE IF c.visible_loading_pages > 0 THEN "kVisiblePageLoading"
    ELSE IF c.loading_pages > 0 THEN "kBackgroundPageLoading"
    ELSE "kNoPageLoading"

\* The three members are updated in the order loading, visible, focused; a
\* failed CHECK stops the call and keeps what was already written.
\* An increment that counts a visible page in its tiers and not in the total.
IncrementLoadingPageCountsTierOnly(c, visible, focused) ==
    LET l  == IF visible THEN [ok |-> TRUE, num |-> c.loading_pages]
              ELSE CheckIncrement(c.loading_pages)
        c1 == [c EXCEPT !.loading_pages = l.num]
        v  == IF visible THEN CheckIncrement(c1.visible_loading_pages)
              ELSE [ok |-> TRUE, num |-> c1.visible_loading_pages]
        c2 == [c1 EXCEPT !.visible_loading_pages = v.num]
        f  == IF focused THEN CheckIncrement(c2.focused_loading_pages)
              ELSE [ok |-> TRUE, num |-> c2.focused_loading_pages]
        c3 == [c2 EXCEPT !.focused_loading_pages = f.num]
    IN  IF ~l.ok THEN [ok |-> FALSE, counts |-> c]
        ELSE IF ~v.ok THEN [ok |-> FALSE, counts |-> c1]
        ELSE IF ~f.ok THEN [ok |-> FALSE, counts |-> c2]
        ELSE [ok |-> TRUE, counts |-> c3]

IncrementLoadingPageCounts(c, visible, focused) ==
    LET l  == CheckIncrement(c.loading_pages)
        c1 == [c EXCEPT !.loading_pages = l.num]
        v  == IF visible THEN CheckIncrement(c1.visible_loading_pages)
              ELSE [ok |-> TRUE, num |-> c1.visible_loading_pages]
        c2 == [c1 EXCEPT !.visible_loading_pages = v.num]
        f  == IF focused THEN CheckIncrement(c2.focused_loading_pages)
              ELSE [ok |-> TRUE, num |-> c2.focused_loading_pages]
        c3 == [c2 EXCEPT !.focused_loading_pages = f.num]
    IN  IF ~l.ok THEN [ok |-> FALSE, counts |-> c]
        ELSE IF ~v.ok THEN [ok |-> FALSE, counts |-> c1]
        ELSE IF ~f.ok THEN [ok |-> FALSE, counts |-> c2]
        ELSE [ok |-> TRUE, counts |-> c3]

\* A decrement that tests the flags against the wrong members.
DecrementLoadingPageCountsSwapped(c, visible, focused) ==
    LET l  == CheckDecrement(c.loading_pages)
        c1 == [c EXCEPT !.loading_pages = l.num]
        v  == IF focused THEN CheckDecrement(c1.visible_loading_pages)
              ELSE [ok |-> TRUE, num |-> c1.visible_loading_pages]
        c2 == [c1 EXCEPT !.visible_loading_pages = v.num]
        f  == IF visible THEN CheckDecrement(c2.focused_loading_pages)
              ELSE [ok |-> TRUE, num |-> c2.focused_loading_pages]
        c3 == [c2 EXCEPT !.focused_loading_pages = f.num]
    IN  IF ~l.ok THEN [ok |-> FALSE, counts |-> c]
        ELSE IF ~v.ok THEN [ok |-> FALSE, counts |-> c1]
        ELSE IF ~f.ok THEN [ok |-> FALSE, counts |-> c2]
        ELSE [ok |-> TRUE, counts |-> c3]

DecrementLoadingPageCounts(c, visible, focused) ==
    LET l  == CheckDecrement(c.loading_pages)
        c1 == [c EXCEPT !.loading_pages = l.num]
        v  == IF visible THEN CheckDecrement(c1.visible_loading_pages)
              ELSE [ok |-> TRUE, num |-> c1.visible_loading_pages]
        c2 == [c1 EXCEPT !.visible_loading_pages = v.num]
        f  == IF focused THEN CheckDecrement(c2.focused_loading_pages)
              ELSE [ok |-> TRUE, num |-> c2.focused_loading_pages]
        c3 == [c2 EXCEPT !.focused_loading_pages = f.num]
    IN  IF ~l.ok THEN [ok |-> FALSE, counts |-> c]
        ELSE IF ~v.ok THEN [ok |-> FALSE, counts |-> c1]
        ELSE IF ~f.ok THEN [ok |-> FALSE, counts |-> c2]
        ELSE [ok |-> TRUE, counts |-> c3]

\* ------------------------------------------------------ the event adapter
\* The observer's machine state while a handler runs:
\*   m.counts, m.published, m.fatal, and the history of the running handler:
\*   m.stores, the number of its stores to the published cell, and m.call,
\*   its last call on the counts (operation, arguments, counts before it).
\* Once m.fatal holds the process is gone and no later statement executes.
NoCall ==
    [op |-> "none", visible |-> FALSE, focused |-> FALSE, pre |-> ZeroCounts,
     ret |-> "kNoPageLoading"]

Machine ==
    [counts |-> counts, published |-> published, fatal |-> fatal,
     stores |-> 0, call |-> NoCall]

\* SetGlobalLoadingScenario: a relaxed store to the global cell.
SetGlobalLoadingScenario(m, scenario) ==
    IF m.fatal THEN m
    ELSE [m EXCEPT !.published = scenario, !.stores = @ + 1]

UpdateGlobalScenario(m) ==
    IF m.fatal THEN m
    ELSE SetGlobalLoadingScenario(m, GetScenario(m.counts))

\* global_counts_.IncrementLoadingPageCounts(visible, focused)
Increment(m, visible, focused) ==
    IF m.fatal THEN m
    ELSE LET r == IncrementLoadingPageCounts(m.counts, visible, focused)
         IN  [m EXCEPT !.counts = r.counts, !.fatal = ~r.ok,
                       !.call = [op |-> "Increment", visible |-> visible,
                                 focused |-> focused, pre |-> m.counts,
                                 ret |-> "kNoPageLoading"]]

\* A decrement that publishes the scenario of the counts it leaves.
DecrementAndPublish(m, visible, focused) ==
    IF m.fatal THEN m
    ELSE LET r == DecrementLoadingPageCounts(m.counts, visible, focused)
         IN  UpdateGlobalScenario(
                 [m EXCEPT !.counts = r.counts, !.fatal = ~r.ok,
                           !.call = [op |-> "Decrement", visible |-> visible,
                                     focused |-> focused, pre |-> m.counts,
                                     ret |-> "kNoPageLoading"]])

\* global_counts_.DecrementLoadingPageCounts(visible, focused)
Decrement(m, visible, focused) ==
    IF m.fatal THEN m
    ELSE LET r == DecrementLoadingPageCounts(m.counts, visible, focused)
         IN  [m EXCEPT !.counts = r.counts, !.fatal = ~r.ok,
                       !.call = [op |-> "Decrement", visible |-> visible,
                                 focused |-> focused, pre |-> m.counts,
                                 ret |-> "kNoPageLoading"]]

\* An added-page handler that counts the page whatever its loading state.
PageNodeAddedAnyState(m, page_node) ==
    UpdateGlobalScenario(Increment(m, page_node.visible, page_node.focused))

\* Bodies of the notification handlers; page_node holds the values the
\* accessors return while the handler runs.
PageNodeAdded(m, page_node) ==
    UpdateGlobalScenario(
        IF StateIsLoading(page_node.state)
        THEN Increment(m, page_node.visible, page_node.focused)
        ELSE m)

\* A removal handler that changes the counts and forgets to publish.
BeforePageNodeRemovedNoPublish(m, page_node) ==
    IF StateIsLoading(page_node.state)
    THEN Decrement(m, page_node.visible, page_node.focused)
    ELSE m

\* A removal handler that takes the page out whatever its loading state.
BeforePageNodeRemovedAnyState(m, page_node) ==
    UpdateGlobalScenario(Decrement(m, page_node.visible, page_node.focused))

BeforePageNodeRemoved(m, page_node) ==
    IF StateIsLoading(page_node.state)
    THEN UpdateGlobalScenario(Decrement(m, page_node.visible, page_node.focused))
    ELSE m

\* A focus handler that takes the page out with its new focus flag.
IsFocusedChangedSameFlag(m, page_node) ==
    IF StateIsLoading(page_node.state)
    THEN UpdateGlobalScenario(
             Increment(Decrement(m, page_node.visible, page_node.focused),
                       page_node.visible, page_node.focused))
    ELSE m

\* A focus handler that counts a page that gains focus as visible.
IsFocusedChangedForcesVisible(m, page_node) ==
    IF StateIsLoading(page_node.state)
    THEN UpdateGlobalScenario(
             Increment(Decrement(m, page_node.visible, ~page_node.focused),
                       page_node.visible \/ page_node.focused, page_node.focused))
    ELSE m

\* A focus handler that takes the page out of the visible tier in any case.
IsFocusedChangedOutOfVisible(m, page_node) ==
    IF StateIsLoading(page_node.state)
    THEN UpdateGlobalScenario(
             Increment(Decrement(m, TRUE, ~page_node.focused),
                       page_node.visible, page_node.focused))
    ELSE m

IsFocusedChanged(m, page_node) ==
    IF StateIsLoading(page_node.state)
    THEN UpdateGlobalScenario(
             Increment(Decrement(m, page_node.visible, ~page_node.focused),
                       page_node.visible, page_node.focused))
    ELSE m

\* A visibility handler that counts a page as focused only while it is visible.
IsVisibleChangedFocusIfVisible(m, page_node) ==
    IF StateIsLoading(page_node.state)
    THEN UpdateGlobalScenario(
             Increment(Decrement(m, ~page_node.visible,
                                 ~page_node.visible /\ page_node.focused),
                       page_node.visible,
                       page_node.visible /\ page_node.focused))
    ELSE m

IsVisibleChanged(m, page_node) ==
    IF StateIsLoading(page_node.state)
    THEN UpdateGlobalScenario(
             Increment(Decrement(m, ~page_node.visible, page_node.focused),
                       page_node.visible, page_node.focused))
    ELSE m

\* A loading-state handler that publishes only when a page starts loading.
LoadingStateChangedPublishOnStart(m, page_node, previous_state) ==
    LET is_loading  == StateIsLoading(page_node.state)
        was_loading == StateIsLoading(previous_state)
    IN  IF is_loading # was_loading
        THEN IF is_loading
             THEN UpdateGlobalScenario(
                      Increment(m, page_node.visible, page_node.focused))
             ELSE Decrement(m, page_node.visible, page_node.focused)
        ELSE m

\* A loading-state handler that compares the states, not their predicates.
LoadingStateChangedOnAnyChange(m, page_node, previous_state) ==
    IF page_node.state # previous_state
    THEN UpdateGlobalScenario(
             IF StateIsLoading(page_node.state)
             THEN Increment(m, page_node.visible, page_node.focused)
             ELSE Decrement(m, page_node.visible, page_node.focused))
    ELSE m

LoadingStateChanged(m, page_node, previous_state) ==
    LET is_loading  == StateIsLoading(page_node.state)
        was_loading == StateIsLoading(previous_state)
    IN  IF is_loading # was_loading
        THEN UpdateGlobalScenario(
                 IF is_loading
                 THEN Increment(m, page_node.visible, page_node.focused)
                 ELSE Decrement(m, page_node.visible, page_node.focused))
        ELSE m

\* The loop of OnPassedToGraph over graph->GetAllPageNodes(), from node p on.
RECURSIVE CountAllPageNodes(_, _, _)
CountAllPageNodes(m, all, p) ==
    IF p > MaxPages THEN m
    ELSE CountAllPageNodes(
             IF all[p].present /\ StateIsLoading(all[p].state)
             THEN Increment(m, all[p].visible, all[p].focused)
             ELSE m,
             all, p + 1)

\* An attach that checks the counts and not the published cell.
AttachChecksCountsOnly(m) ==
    IF m.counts = ZeroCounts THEN m ELSE [m EXCEPT !.fatal = TRUE]

\* The two CHECKs at the top of OnPassedToGraph.
AttachChecks(m) ==
    IF m.counts = ZeroCounts /\ m.published = "kNoPageLoading"
    THEN m
    ELSE [m EXCEPT !.fatal = TRUE]

\* An attach that publishes before it counts the pages.
PassedToGraphPublishFirst(m, all) ==
    CountAllPageNodes(UpdateGlobalScenario(AttachChecks(m)), all, 1)

PassedToGraph(m, all) ==
    UpdateGlobalScenario(CountAllPageNodes(AttachChecks(m), all, 1))

\* A detach that publishes without resetting the counts.
TakenFromGraphNoReset(m) ==
    UpdateGlobalScenario(m)

\* A detach that resets the counts and leaves the published cell.
TakenFromGraphNoPublish(m) ==
    [m EXCEPT !.counts = ZeroCounts]

TakenFromGraph(m) ==
    UpdateGlobalScenario([m EXCEPT !.counts = ZeroCounts])

\* ----------------------------------------------------------------- actions
\* What one operation of the graph can make of a node: a node is added with
\* any attributes or removed, or one attribute of it changes.
GraphChanges(page_node) ==
    IF ~page_node.present THEN PageNodes
    ELSE {AbsentPage}
         \cup {[page_node EXCEPT !.focused = ~@], [page_node EXCEPT !.visible = ~@]}
         \cup {[page_node EXCEPT !.state = s] : s \in LoadingStates \ {page_node.state}}

\* The observer's sequence is between two handlers.
Idle ==
    [pc |-> "idle", h |-> "none", p |-> 0]

\* The observer's state after handler h ended in machine state m.
Ran(h, m) ==
    /\ counts' = m.counts
    /\ published' = m.published
    /\ fatal' = m.fatal
    /\ last' = [h |-> h, stores |-> m.stores, was |-> published, pre |-> counts]
    /\ call' = m.call

Init ==
    /\ pages = [p \in PageIds |-> AbsentPage]
    /\ counts = ZeroCounts
    /\ published = "kNoPageLoading"
    /\ attached = FALSE
    /\ fatal = FALSE
    /\ last = [h |-> "none", stores |-> 0, was |-> "kNoPageLoading", pre |-> ZeroCounts]
    /\ call = NoCall
    /\ broken = 0
    /\ run = Idle
    /\ seen = [val |-> "kNoPageLoading", completed |-> TRUE, at |-> "none"]
    /\ readable = {[val |-> "kNoPageLoading", completed |-> TRUE]}

\* A node joins the graph and the graph notifies the observer.
OnPageNodeAdded(p, page_node) ==
    /\ ~fatal /\ attached
    /\ ~pages[p].present
    /\ pages' = [pages EXCEPT ![p] = page_node]
    /\ Ran("OnPageNodeAdded", PageNodeAdded(Machine, page_node))
    /\ UNCHANGED <<attached, broken, run, seen, readable>>

\* The graph notifies the observer, then the node leaves the graph.
OnBeforePageNodeRemoved(p) ==
    /\ ~fatal /\ attached
    /\ pages[p].present
    /\ Ran("OnBeforePageNodeRemoved", BeforePageNodeRemoved(Machine, pages[p]))
    /\ pages' = [pages EXCEPT ![p] = AbsentPage]
    /\ UNCHANGED <<attached, broken, run, seen, readable>>

\* The node's focus flips and the graph notifies the observer.
OnIsFocusedChanged(p) ==
    /\ ~fatal /\ attached
    /\ pages[p].present
    /\ pages' = [pages EXCEPT ![p].focused = ~@]
    /\ Ran("OnIsFocusedChanged", IsFocusedChanged(Machine, pages'[p]))
    /\ UNCHANGED <<attached, broken, run, seen, readable>>

\* The node's visibility flips and the graph notifies the observer.
OnIsVisibleChanged(p) ==
    /\ ~fatal /\ attached
    /\ pages[p].present
    /\ pages' = [pages EXCEPT ![p].visible = ~@]
    /\ Ran("OnIsVisibleChanged", IsVisibleChanged(Machine, pages'[p]))
    /\ UNCHANGED <<attached, broken, run, seen, readable>>

\* The node's loading state changes and the graph notifies the observer,
\* passing the state the node had before.
OnLoadingStateChanged(p, new_state) ==
    /\ ~fatal /\ attached
    /\ pages[p].present
    /\ new_state # pages[p].state
    /\ pages' = [pages EXCEPT ![p].state = new_state]
    /\ Ran("OnLoadingStateChanged",
           LoadingStateChanged(Machine, pages'[p], pages[p].state))
    /\ UNCHANGED <<attached, broken, run, seen, readable>>

\* The owner hands the observer to the graph.
OnPassedToGraph ==
    /\ ~fatal /\ ~attached
    /\ attached' = TRUE
    /\ Ran("OnPassedToGraph", PassedToGraph(Machine, pages))
    /\ UNCHANGED <<pages, broken, run, seen, readable>>

\* The owner takes the observer back from the graph.
OnTakenFromGraph ==
    /\ ~fatal /\ attached
    /\ attached' = FALSE
    /\ Ran("OnTakenFromGraph", TakenFromGraph(Machine))
    /\ UNCHANGED <<pages, broken, run, seen, readable>>

\* While the observer is not registered the graph changes unobserved.
GraphChangeUnobserved(p, page_node) ==
    /\ ~fatal /\ ~attached
    /\ page_node \in GraphChanges(pages[p])
    /\ pages' = [pages EXCEPT ![p] = page_node]
    /\ last' = [h |-> "GraphChangeUnobserved", stores |-> 0, was |-> published,
                pre |-> counts]
    /\ call' = NoCall
    /\ UNCHANGED <<counts, published, attached, fatal, broken, run, seen, readable>>

\* The events of a graph that holds the nodes ids and of the observer's owner.
NextOn(ids) ==
    \/ \E p \in ids, page_node \in PageNodes : OnPageNodeAdded(p, page_node)
    \/ \E p \in ids : OnBeforePageNodeRemoved(p)
    \/ \E p \in ids : OnIsFocusedChanged(p)
    \/ \E p \in ids : OnIsVisibleChanged(p)
    \/ \E p \in ids, s \in LoadingStates : OnLoadingStateChanged(p, s)
    \/ OnPassedToGraph
    \/ OnTakenFromGraph
    \/ \E p \in ids, page_node \in PageNodes \cup {AbsentPage} :
           GraphChangeUnobserved(p, page_node)

Next == NextOn(PageIds)

Spec == Init /\ [][Next]_vars

\* ------------------------------------------- the counting core on its own
\* A client of LoadingCounts calls its three methods in any order.
CallIncrementLoadingPageCounts(visible, focused) ==
    /\ ~fatal
    /\ Ran("CallIncrementLoadingPageCounts", Increment(Machine, visible, focused))
    /\ UNCHANGED <<pages, attached, broken, run, seen, readable>>

CallDecrementLoadingPageCounts(visible, focused) ==
    /\ ~fatal
    /\ Ran("CallDecrementLoadingPageCounts", Decrement(Machine, visible, focused))
    /\ UNCHANGED <<pages, attached, broken, run, seen, readable>>

\* GetScenario() is const: it returns a value and writes nothing.
CallGetScenario ==
    /\ ~fatal
    /\ call' = [op |-> "GetScenario", visible |-> FALSE, focused |-> FALSE,
                pre |-> counts, ret |-> GetScenario(counts)]
    /\ last' = [h |-> "CallGetScenario", stores |-> 0, was |-> published,
                pre |-> counts]
    /\ UNCHANGED <<pages, counts, published, attached, fatal, broken, run, seen, readable>>

\* The client calls IncrementLoadingPageCounts and then, with the same flags,
\* DecrementLoadingPageCounts.
CallIncrementThenDecrement(visible, focused) ==
    /\ ~fatal
    /\ Ran("CallIncrementThenDecrement",
           Decrement(Increment(Machine, visible, focused), visible, focused))
    /\ UNCHANGED <<pages, attached, broken, run, seen, readable>>

NextCore ==
    \/ \E visible, focused \in BOOLEAN :
           CallIncrementLoadingPageCounts(visible, focused)
    \/ \E visible, focused \in BOOLEAN :
           CallIncrementThenDecrement(visible, focused)
    \/ \E visible, focused \in BOOLEAN :
           CallDecrementLoadingPageCounts(visible, focused)
    \/ CallGetScenario

SpecCore == Init /\ [][NextCore]_vars

\* ------------------------------- a graph and an owner that break the rules
\* The graph changes a node while the observer is registered and delivers no
\* notification for it.
MissedNotification(p, page_node) ==
    /\ ~fatal /\ attached
    /\ broken < MaxBroken
    /\ page_node \in GraphChanges(pages[p])
    /\ pages' = [pages EXCEPT ![p] = page_node]
    /\ broken' = broken + 1
    /\ last' = [h |-> "MissedNotification", stores |-> 0, was |-> published,
                pre |-> counts]
    /\ call' = NoCall
    /\ UNCHANGED <<counts, published, attached, fatal, run, seen, readable>>

\* The owner passes the observer to the graph a second time.
OnPassedToGraphAgain ==
    /\ ~fatal /\ attached
    /\ Ran("OnPassedToGraph", PassedToGraph(Machine, pages))
    /\ UNCHANGED <<pages, attached, broken, run, seen, readable>>

\* Another writer (a stale observer instance, say) stores to the global cell,
\* which the observer does not own, while the observer is not registered.
StoreByOtherWriter(scenario) ==
    /\ ~fatal /\ ~attached
    /\ scenario # published
    /\ published' = scenario
    /\ last' = [h |-> "StoreByOtherWriter", stores |-> 0, was |-> published,
                pre |-> counts]
    /\ call' = NoCall
    /\ UNCHANGED <<pages, counts, attached, fatal, broken, run, seen, readable>>

NextAny ==
    \/ NextOn(PageIdsAny)
    \/ \E p \in PageIdsAny, page_node \in PageNodes \cup {AbsentPage} :
           MissedNotification(p, page_node)
    \/ OnPassedToGraphAgain
    \/ \E scenario \in LoadingScenarios : StoreByOtherWriter(scenario)

SpecAny == Init /\ [][NextAny]_vars

\* The observer is the only writer of the cell and is passed to the graph only
\* while it is not registered; the graph may fail to deliver notifications.
NextSoleWriter ==
    \/ NextOn(PageIdsAny)
    \/ \E p \in PageIdsAny, page_node \in PageNodes \cup {AbsentPage} :
           MissedNotification(p, page_node)

SpecSoleWriter == Init /\ [][NextSoleWriter]_vars

\* Both flags of a node change before either notification is handled: the two
\* handlers run one after the other, in either order, and each reads the new
\* value of both accessors.
OnIsFocusedAndIsVisibleChanged(p, focus_first) ==
    /\ ~fatal /\ attached
    /\ pages[p].present
    /\ pages' = [pages EXCEPT ![p].focused = ~@, ![p].visible = ~@]
    /\ Ran("OnIsFocusedAndIsVisibleChanged",
           IF focus_first
           THEN IsVisibleChanged(IsFocusedChanged(Machine, pages'[p]), pages'[p])
           ELSE IsFocusedChanged(IsVisibleChanged(Machine, pages'[p]), pages'[p]))
    /\ UNCHANGED <<attached, broken, run, seen, readable>>

NextBoth ==
    \/ Next
    \/ \E p \in PageIds, focus_first \in BOOLEAN :
           OnIsFocusedAndIsVisibleChanged(p, focus_first)

SpecBoth == Init /\ [][NextBoth]_vars

\* ------------------------------------- handlers, statement by statement
\* The handlers of Spec run on the observer's sequence one statement at a
\* time, and a thread that is not the observer's loads the published cell at
\* any moment.  run.pc is the statement the running handler h executes next:
\* "increment" the IncrementLoadingPageCounts of a focus or visibility
\* handler, "count" the body of the loop of OnPassedToGraph for node run.p,
\* "publish" the closing UpdateGlobalScenario.

\* The observer's state after statements of handler h left machine state m
\* and the handler goes on at pc.  A store of this step joins the stores a
\* relaxed load may return; it is marked completed when the handler ends with
\* this step and the stored value is the scenario of the counts it ends with.
Stepped(h, p, m, pc) ==
    /\ counts' = m.counts
    /\ published' = m.published
    /\ fatal' = m.fatal
    /\ call' = IF m.call = NoCall /\ run.pc # "idle" THEN call ELSE m.call
    /\ last' = IF run.pc = "idle"
               THEN [h |-> h, stores |-> m.stores, was |-> published, pre |-> counts]
               ELSE [last EXCEPT !.stores = @ + m.stores]
    /\ run' = IF pc = "idle" \/ m.fatal THEN Idle ELSE [pc |-> pc, h |-> h, p |-> p]
    /\ readable' = IF m.stores = 0 THEN readable
                   ELSE readable \cup
                            {[val |-> m.published,
                              completed |-> /\ pc = "idle"
                                            /\ m.published = GetScenario(m.counts)]}
    /\ UNCHANGED <<seen, broken>>

\* A first statement that increments where the handlers decrement.
FlagChangedFirstIncrements(m, h, page_node) ==
    Increment(m, page_node.visible, page_node.focused)

\* The first statement of OnIsFocusedChanged and of OnIsVisibleChanged for a
\* loading page: the page leaves the counts with the flags it had.
FlagChangedFirst(m, h, page_node) ==
    IF h = "OnIsFocusedChanged"
    THEN Decrement(m, page_node.visible, ~page_node.focused)
    ELSE Decrement(m, ~page_node.visible, page_node.focused)

\* The node after p, or MaxPages + 1, in the order of GetAllPageNodes().
NextPageNode(all, p) ==
    IF \E q \in PageIds : q > p /\ all[q].present
    THEN CHOOSE q \in PageIds :
             /\ q > p /\ all[q].present
             /\ \A r \in PageIds : (r > p /\ all[r].present) => q <= r
    ELSE MaxPages + 1

StartPageNodeAdded(p, page_node) ==
    /\ ~fatal /\ attached /\ run.pc = "idle"
    /\ ~pages[p].present
    /\ pages' = [pages EXCEPT ![p] = page_node]
    /\ IF StateIsLoading(page_node.state)
       THEN Stepped("OnPageNodeAdded", p,
                    Increment(Machine, page_node.visible, page_node.focused),
                    "publish")
       ELSE Stepped("OnPageNodeAdded", p, Machine, "idle")
    /\ UNCHANGED attached

\* The node leaves the graph when the handler has returned.
StartBeforePageNodeRemoved(p) ==
    /\ ~fatal /\ attached /\ run.pc = "idle"
    /\ pages[p].present
    /\ IF StateIsLoading(pages[p].state)
       THEN /\ Stepped("OnBeforePageNodeRemoved", p,
                       Decrement(Machine, pages[p].visible, pages[p].focused),
                       "publish")
            /\ UNCHANGED pages
       ELSE /\ Stepped("OnBeforePageNodeRemoved", p, Machine, "idle")
            /\ pages' = [pages EXCEPT ![p] = AbsentPage]
    /\ UNCHANGED attached

StartIsFocusedChanged(p) ==
    /\ ~fatal /\ attached /\ run.pc = "idle"
    /\ pages[p].present
    /\ pages' = [pages EXCEPT ![p].focused = ~@]
    /\ IF StateIsLoading(pages[p].state)
       THEN Stepped("OnIsFocusedChanged", p,
                    FlagChangedFirst(Machine, "OnIsFocusedChanged", pages'[p]),
                    "increment")
       ELSE Stepped("OnIsFocusedChanged", p, Machine, "idle")
    /\ UNCHANGED attached

StartIsVisibleChanged(p) ==
    /\ ~fatal /\ attached /\ run.pc = "idle"
    /\ pages[p].present
    /\ pages' = [pages EXCEPT ![p].visible = ~@]
    /\ IF StateIsLoading(pages[p].state)
       THEN Stepped("OnIsVisibleChanged", p,
                    FlagChangedFirst(Machine, "OnIsVisibleChanged", pages'[p]),
                    "increment")
       ELSE Stepped("OnIsVisibleChanged", p, Machine, "idle")
    /\ UNCHANGED attached

StartLoadingStateChanged(p, new_state) ==
    /\ ~fatal /\ attached /\ run.pc = "idle"
    /\ pages[p].present
    /\ new_state # pages[p].state
    /\ pages' = [pages EXCEPT ![p].state = new_state]
    /\ IF StateIsLoading(new_state) = StateIsLoading(pages[p].state)
       THEN Stepped("OnLoadingStateChanged", p, Machine, "idle")
       ELSE Stepped("OnLoadingStateChanged", p,
                    IF StateIsLoading(new_state)
                    THEN Increment(Machine, pages[p].visible, pages[p].focused)
                    ELSE Decrement(Machine, pages[p].visible, pages[p].focused),
                    "publish")
    /\ UNCHANGED attached

\* The two CHECKs, then the loop from the first node of the graph.
StartPassedToGraph ==
    /\ ~fatal /\ ~attached /\ run.pc = "idle"
    /\ attached' = TRUE
    /\ LET first == NextPageNode(pages, 0)
       IN  Stepped("OnPassedToGraph", IF first > MaxPages THEN 0 ELSE first,
                   AttachChecks(Machine),
                   IF first > MaxPages THEN "publish" ELSE "count")
    /\ UNCHANGED pages

\* The counts are reset.
StartTakenFromGraph ==
    /\ ~fatal /\ attached /\ run.pc = "idle"
    /\ attached' = FALSE
    /\ Stepped("OnTakenFromGraph", 0, [Machine EXCEPT !.counts = ZeroCounts],
               "publish")
    /\ UNCHANGED pages

\* The second statement of OnIsFocusedChanged and of OnIsVisibleChanged.
StepIncrement ==
    /\ ~fatal /\ run.pc = "increment"
    /\ Stepped(run.h, run.p,
               Increment(Machine, pages[run.p].visible, pages[run.p].focused),
               "publish")
    /\ UNCHANGED <<pages, attached>>

\* One turn of the loop of OnPassedToGraph.
StepCount ==
    /\ ~fatal /\ run.pc = "count"
    /\ LET following == NextPageNode(pages, run.p)
       IN  Stepped(run.h, IF following > MaxPages THEN 0 ELSE following,
                   IF StateIsLoading(pages[run.p].state)
                   THEN Increment(Machine, pages[run.p].visible, pages[run.p].focused)
                   ELSE Machine,
                   IF following > MaxPages THEN "publish" ELSE "count")
    /\ UNCHANGED <<pages, attached>>

\* The closing UpdateGlobalScenario; the handler returns.
StepPublish ==
    /\ ~fatal /\ run.pc = "publish"
    /\ Stepped(run.h, run.p, UpdateGlobalScenario(Machine), "idle")
    /\ pages' = IF run.h = "OnBeforePageNodeRemoved"
                THEN [pages EXCEPT ![run.p] = AbsentPage]
                ELSE pages
    /\ UNCHANGED attached

\* A thread that is not the observer's loads the cell, relaxed: it gets the
\* value of the last store or of a store before it.
ReaderLoad ==
    /\ ~fatal
    /\ \E r \in readable :
           seen' = [val |-> r.val, completed |-> r.completed, at |-> run.pc]
    /\ UNCHANGED <<pages, counts, published, attached, fatal, last, call, broken,
                   run, readable>>

NextSteps ==
    \/ \E p \in PageIdsSteps, page_node \in PageNodes : StartPageNodeAdded(p, page_node)
    \/ \E p \in PageIdsSteps : StartBeforePageNodeRemoved(p)
    \/ \E p \in PageIdsSteps : StartIsFocusedChanged(p)
    \/ \E p \in PageIdsSteps : StartIsVisibleChanged(p)
    \/ \E p \in PageIdsSteps, s \in LoadingStates : StartLoadingStateChanged(p, s)
    \/ StartPassedToGraph
    \/ StartTakenFromGraph
    \/ StepIncrement
    \/ StepCount
    \/ StepPublish
    \/ ReaderLoad
    \/ \E p \in PageIdsSteps, page_node \in PageNodes \cup {AbsentPage} :
           run.pc = "idle" /\ GraphChangeUnobserved(p, page_node)

SpecSteps == Init /\ [][NextSteps]_vars

\* ------------------------------------------------------------ properties
\* The pages of the graph whose loading predicate is true.
LoadingPageIds ==
    {p \in PageIds : pages[p].present /\ StateIsLoading(pages[p].state)}

\* The counts an exact count of the graph's pages gives.
ExactCounts ==
    [focused_loading_pages |-> Cardinality({p \in LoadingPageIds : pages[p].focused}),
     visible_loading_pages |-> Cardinality({p \in LoadingPageIds : pages[p].visible}),
     loading_pages |-> Cardinality(LoadingPageIds)]

NotificationHandlers ==
    {"OnPageNodeAdded", "OnBeforePageNodeRemoved", "OnIsFocusedChanged",
     "OnIsVisibleChanged", "OnLoadingStateChanged"}

\* C1: while the observer is attached, at the end of every handler each count
\* is the number of tracked pages that are loading, loading and visible,
\* loading and focused.
ExactCounting ==
    (attached /\ ~fatal) => counts = ExactCounts

\* Two loading pages, one only visible and one only focused, counted after a
\* notification.
ExactCountingWitness ==
    /\ attached /\ ~fatal
    /\ last.h \in NotificationHandlers
    /\ counts = [focused_loading_pages |-> 1, visible_loading_pages |-> 1,
                 loading_pages |-> 2]
    /\ \E p \in LoadingPageIds : pages[p].focused /\ ~pages[p].visible

\* The highest tier among the pages that remain and are loading.
HighestTier ==
    IF \E p \in LoadingPageIds : pages[p].focused THEN "kFocusedPageLoading"
    ELSE IF \E p \in LoadingPageIds : pages[p].visible THEN "kVisiblePageLoading"
    ELSE IF LoadingPageIds # {} THEN "kBackgroundPageLoading"
    ELSE "kNoPageLoading"

\* C2: after every handler the published scenario is the highest tier among
\* the loading pages that remain in the graph.
PublishedHighestTier ==
    (attached /\ ~fatal) => published = HighestTier

\* The focused loading page was removed and a background page keeps loading.
PublishedHighestTierWitness ==
    /\ attached /\ ~fatal
    /\ last.h = "OnBeforePageNodeRemoved"
    /\ last.was = "kFocusedPageLoading"
    /\ published = "kBackgroundPageLoading"

\* The precedence rule, tier by tier.
PrecedenceRule(c, scenario) ==
    /\ scenario = "kFocusedPageLoading" <=> c.focused_loading_pages > 0
    /\ scenario = "kVisiblePageLoading" <=>
           (c.focused_loading_pages = 0 /\ c.visible_loading_pages > 0)
    /\ scenario = "kBackgroundPageLoading" <=>
           (c.focused_loading_pages = 0 /\ c.visible_loading_pages = 0
            /\ c.loading_pages > 0)
    /\ scenario = "kNoPageLoading" <=>
           (c.focused_loading_pages = 0 /\ c.visible_loading_pages = 0
            /\ c.loading_pages = 0)

\* C3: GetScenario() returns what the precedence rule gives for the counts it
\* is called on, and leaves the counts as they were.
GetScenarioIsPrecedence ==
    call.op = "GetScenario" =>
        (PrecedenceRule(call.pre, call.ret) /\ counts = call.pre)

\* GetScenario() called on counts with a focused and more visible pages.
GetScenarioIsPrecedenceWitness ==
    /\ call.op = "GetScenario"
    /\ call.pre.focused_loading_pages = 1
    /\ call.pre.visible_loading_pages = 2
    /\ call.ret = "kFocusedPageLoading"

\* C4: whenever no handler runs, the published cell holds GetScenario() of the
\* counts.
PublishedInSync ==
    ~fatal => published = GetScenario(counts)

\* A page that is not loading was removed, without a store, while another
\* page loads.
PublishedInSyncWitness ==
    /\ attached /\ ~fatal
    /\ last.h = "OnBeforePageNodeRemoved"
    /\ last.stores = 0
    /\ published # "kNoPageLoading"

\* C5: focused_loading_count <= visible_loading_count <= loading_count at the
\* end of every handler.
TierOrdering ==
    (attached /\ ~fatal) =>
        /\ counts.focused_loading_pages <= counts.visible_loading_pages
        /\ counts.visible_loading_pages <= counts.loading_pages

\* The focus notification for node p after its focus flipped, then the
\* visibility notification after its visibility flipped, and the other order;
\* first is the machine after the first handler, second after both.
FocusThenVisible(m, page_node) ==
    LET a == [page_node EXCEPT !.focused = ~@]
        b == [a EXCEPT !.visible = ~@]
        first == IsFocusedChanged(m, a)
    IN  [first |-> first, second |-> IsVisibleChanged(first, b), a |-> a, b |-> b]

VisibleThenFocus(m, page_node) ==
    LET a == [page_node EXCEPT !.visible = ~@]
        b == [a EXCEPT !.focused = ~@]
        first == IsVisibleChanged(m, a)
    IN  [first |-> first, second |-> IsFocusedChanged(first, b), a |-> a, b |-> b]

FocusedMeansPublished(m, page_node) ==
    page_node.focused => m.published = "kFocusedPageLoading"

\* C6: for a loading page, the focus and the visibility notification end in
\* the same counts and published scenario in either order, and after each of
\* them the published scenario is FocusedPageLoading if the page is focused.
OrderIndependence ==
    (attached /\ ~fatal) =>
        \A p \in LoadingPageIds :
            LET fv == FocusThenVisible(Machine, pages[p])
                vf == VisibleThenFocus(Machine, pages[p])
            IN  /\ fv.second.counts = vf.second.counts
                /\ fv.second.published = vf.second.published
                /\ ~fv.second.fatal /\ ~vf.second.fatal
                /\ FocusedMeansPublished(fv.first, fv.a)
                /\ FocusedMeansPublished(vf.first, vf.a)
                /\ FocusedMeansPublished(fv.second, fv.b)
                /\ FocusedMeansPublished(vf.second, vf.b)

\* A loading page became focused and visible next to another visible loading
\* page, the visibility notification last.
OrderIndependenceWitness ==
    /\ attached /\ ~fatal
    /\ last.h = "OnIsVisibleChanged"
    /\ call.op = "Increment" /\ call.visible /\ call.focused
    /\ last.was = "kFocusedPageLoading"
    /\ published = "kFocusedPageLoading"
    /\ counts = [focused_loading_pages |-> 1, visible_loading_pages |-> 2,
                 loading_pages |-> 2]

\* C7: detach leaves all counts at zero and NoPageLoading published, whatever
\* the counts and the cell were.
DetachResets ==
    last.h = "OnTakenFromGraph" =>
        /\ counts = ZeroCounts
        /\ published = "kNoPageLoading"
        /\ ~fatal /\ ~attached

\* Detach ran on counts that were not those of the graph's pages.
DetachResetsWitness ==
    /\ last.h = "OnTakenFromGraph"
    /\ last.pre # ZeroCounts
    /\ last.pre # ExactCounts
    /\ counts = ZeroCounts

\* C8: attach from zero counts and NoPageLoading counts the pages already
\* loading and stores the scenario of the final counts, once.
AttachCountsPopulation ==
    (last.h = "OnPassedToGraph" /\ last.pre = ZeroCounts
        /\ last.was = "kNoPageLoading") =>
        /\ ~fatal
        /\ counts = ExactCounts
        /\ last.stores = 1
        /\ published = GetScenario(counts)

\* Attach found a visible and a visible, focused loading page.
AttachCountsPopulationWitness ==
    /\ last.h = "OnPassedToGraph"
    /\ counts = [focused_loading_pages |-> 1, visible_loading_pages |-> 2,
                 loading_pages |-> 2]
    /\ published = "kFocusedPageLoading"

\* C9: attach on non-zero counts or on a published value other than
\* NoPageLoading is fatal before any page is counted or any value stored.
AttachLifecycleCheck ==
    (last.h = "OnPassedToGraph"
        /\ (last.pre # ZeroCounts \/ last.was # "kNoPageLoading")) =>
        /\ fatal
        /\ call = NoCall
        /\ counts = last.pre
        /\ last.stores = 0
        /\ published = last.was

\* The observer was passed to the graph again while it counted a loading page.
AttachLifecycleCheckWitness ==
    /\ fatal
    /\ last.h = "OnPassedToGraph"
    /\ last.pre # ZeroCounts
    /\ LoadingPageIds # {}

\* DecrementLoadingPageCounts(visible, focused) on counts c takes a count
\* below zero.
Underflows(c, visible, focused) ==
    \/ c.loading_pages = 0
    \/ visible /\ c.visible_loading_pages = 0
    \/ focused /\ c.focused_loading_pages = 0

\* C10: a decrement that would take a count below zero is fatal and nothing
\* is published after it; a decrement that is not fatal takes exactly one off
\* each count it names.
UnderflowIsFatal ==
    call.op = "Decrement" =>
        /\ Underflows(call.pre, call.visible, call.focused) =>
               (fatal /\ last.stores = 0 /\ published = last.was)
        /\ ~fatal =>
               /\ counts.loading_pages = call.pre.loading_pages - 1
               /\ counts.visible_loading_pages =
                      call.pre.visible_loading_pages - (IF call.visible THEN 1 ELSE 0)
               /\ counts.focused_loading_pages =
                      call.pre.focused_loading_pages - (IF call.focused THEN 1 ELSE 0)

\* A page whose change to visible was never notified is removed: the loading
\* count goes down and the visible count underflows.
UnderflowIsFatalWitness ==
    /\ fatal
    /\ call.op = "Decrement" /\ call.visible
    /\ call.pre.loading_pages > 0
    /\ call.pre.visible_loading_pages = 0

\* IncrementLoadingPageCounts(visible, focused) on counts c takes a count past
\* the maximum.
Overflows(c, visible, focused) ==
    \/ c.loading_pages = SizeMax
    \/ visible /\ c.visible_loading_pages = SizeMax
    \/ focused /\ c.focused_loading_pages = SizeMax

\* C11: an increment that would take a count past the maximum is fatal; in
\* every state that is not fatal each count lies in [0, max], and an increment
\* that is not fatal adds exactly one to each count it names.
OverflowIsFatal ==
    /\ (call.op = "Increment" /\ Overflows(call.pre, call.visible, call.focused))
           => fatal
    /\ ~fatal =>
           /\ counts \in LoadingCounts
           /\ call.op = "Increment" =>
                  /\ counts.loading_pages = call.pre.loading_pages + 1
                  /\ counts.visible_loading_pages =
                         call.pre.visible_loading_pages + (IF call.visible THEN 1 ELSE 0)
                  /\ counts.focused_loading_pages =
                         call.pre.focused_loading_pages + (IF call.focused THEN 1 ELSE 0)

\* IncrementLoadingPageCounts was called with loading_pages at the maximum.
OverflowIsFatalWitness ==
    /\ fatal
    /\ last.h = "CallIncrementLoadingPageCounts"
    /\ call.op = "Increment"
    /\ call.pre.loading_pages = SizeMax

\* C12: IncrementLoadingPageCounts(v, f) that does not overflow, followed at
\* once by DecrementLoadingPageCounts(v, f), leaves the three counts as they
\* were before the two calls.
RoundTrip ==
    (last.h = "CallIncrementThenDecrement"
        /\ ~Overflows(last.pre, call.visible, call.focused)) =>
        /\ ~fatal
        /\ call.op = "Decrement"
        /\ counts = last.pre

\* The two calls ran with both flags set on counts that were not zero.
RoundTripWitness ==
    /\ last.h = "CallIncrementThenDecrement"
    /\ ~fatal
    /\ call.op = "Decrement" /\ call.visible /\ call.focused
    /\ call.pre # last.pre
    /\ last.pre.loading_pages > 0
    /\ last.pre.visible_loading_pages # last.pre.focused_loading_pages

\* C13: whenever a thread that is not the observer's loads the published
\* cell, also between the decrement and the increment of a focus or
\* visibility handler and inside the loop of the attach, it gets the initial
\* NoPageLoading or a value that was the scenario of the counts at the end of
\* a handler that had completed: every store a load can return is the last
\* statement of its handler, and a running handler has not stored yet.
ReadersSeeCompleted ==
    /\ seen.completed
    /\ \A r \in readable : r.completed
    /\ [val |-> published, completed |-> TRUE] \in readable
    /\ run.pc # "idle" => (published = last.was /\ last.stores = 0)

\* The reader loaded FocusedPageLoading while the only loading page, which
\* had lost its focus, was out of the counts.
ReadersSeeCompletedWitness ==
    /\ ~fatal
    /\ run.pc = "increment" /\ run.h = "OnIsFocusedChanged"
    /\ counts = ZeroCounts
    /\ seen.at = "increment"
    /\ seen.val = "kFocusedPageLoading"
    /\ published = "kFocusedPageLoading"

\* The tiers the page of the running focus or visibility handler is in before
\* and after the change have a count above zero between the decrement and the
\* increment.
NoTransientZero ==
    (run.pc = "increment" /\ ~fatal) =>
        /\ counts.loading_pages > 0
        /\ (run.h = "OnIsFocusedChanged" /\ pages[run.p].visible)
               => counts.visible_loading_pages > 0
        /\ (run.h = "OnIsVisibleChanged" /\ pages[run.p].focused)
               => counts.focused_loading_pages > 0

\* C18: between the decrement and the increment of a focus or visibility
\* handler for a loading page, the count of each tier the page is in before
\* and after the change (loading_pages always) is one less than when the
\* handler began, so it is zero when the page is the only page of the tier;
\* the published cell still holds the scenario of before the handler.
TransientOneLess ==
    (run.pc = "increment" /\ ~fatal) =>
        /\ counts.loading_pages = last.pre.loading_pages - 1
        /\ (run.h = "OnIsFocusedChanged" /\ pages[run.p].visible)
               => counts.visible_loading_pages = last.pre.visible_loading_pages - 1
        /\ (run.h = "OnIsVisibleChanged" /\ pages[run.p].focused)
               => counts.focused_loading_pages = last.pre.focused_loading_pages - 1
        /\ published = last.was
        /\ last.stores = 0

\* The only loading page, visible, gained focus: between the two calls
\* loading_pages and visible_loading_pages are zero and the cell holds
\* VisiblePageLoading.
TransientOneLessWitness ==
    /\ ~fatal
    /\ run.pc = "increment" /\ run.h = "OnIsFocusedChanged"
    /\ pages[run.p].visible /\ pages[run.p].focused
    /\ last.pre.loading_pages = 1 /\ last.pre.visible_loading_pages = 1
    /\ counts.loading_pages = 0 /\ counts.visible_loading_pages = 0
    /\ published = "kVisiblePageLoading"

\* What the flags of a page add to the three counts.
Membership(page_node) ==
    [focused_loading_pages |-> IF page_node.focused THEN 1 ELSE 0,
     visible_loading_pages |-> IF page_node.visible THEN 1 ELSE 0,
     loading_pages |-> 1]

Plus(c, d) ==
    [focused_loading_pages |-> c.focused_loading_pages + d.focused_loading_pages,
     visible_loading_pages |-> c.visible_loading_pages + d.visible_loading_pages,
     loading_pages |-> c.loading_pages + d.loading_pages]

Minus(c, d) ==
    [focused_loading_pages |-> c.focused_loading_pages - d.focused_loading_pages,
     visible_loading_pages |-> c.visible_loading_pages - d.visible_loading_pages,
     loading_pages |-> c.loading_pages - d.loading_pages]

\* The step is handler h, notified for the change of node p.
Notified(h, p) ==
    last'.h = h /\ pages'[p] # pages[p]

\* C14: a focus notification for a loading page moves focused_loading_pages by
\* one, up on focus gained and down on focus lost, and leaves the two other
\* counts; a visibility notification does the same to visible_loading_pages.
TierChangeFrame ==
    [][\A p \in PageIds :
          /\ (Notified("OnIsFocusedChanged", p) /\ pages[p].state \in {"kLoading", "kLoadedBusy"})
                 => /\ counts'.loading_pages = counts.loading_pages
                    /\ counts'.visible_loading_pages = counts.visible_loading_pages
                    /\ counts'.focused_loading_pages =
                           counts.focused_loading_pages
                               + (IF pages'[p].focused THEN 1 ELSE -1)
          /\ (Notified("OnIsVisibleChanged", p) /\ pages[p].state \in {"kLoading", "kLoadedBusy"})
                 => /\ counts'.loading_pages = counts.loading_pages
                    /\ counts'.focused_loading_pages = counts.focused_loading_pages
                    /\ counts'.visible_loading_pages =
                           counts.visible_loading_pages
                               + (IF pages'[p].visible THEN 1 ELSE -1)]_vars

\* A loading page that is not visible gained focus next to another loading
\* page.
TierChangeFrameWitness ==
    /\ ~fatal
    /\ last.h = "OnIsFocusedChanged"
    /\ call.op = "Increment" /\ call.focused /\ ~call.visible
    /\ last.pre = [focused_loading_pages |-> 0, visible_loading_pages |-> 1,
                   loading_pages |-> 2]
    /\ counts = [focused_loading_pages |-> 1, visible_loading_pages |-> 1,
                 loading_pages |-> 2]

\* C15: a page-added, page-about-to-be-removed, focus or visibility
\* notification for a page that is not loading leaves the three counts and the
\* published scenario as they were.
NotLoadingFrame ==
    [][\A p \in PageIds :
          (/\ \E h \in {"OnPageNodeAdded", "OnBeforePageNodeRemoved",
                        "OnIsFocusedChanged", "OnIsVisibleChanged"} : Notified(h, p)
           /\ pages[p].state \notin {"kLoading", "kLoadedBusy"}
           /\ pages'[p].state \notin {"kLoading", "kLoadedBusy"})
              => (counts' = counts /\ published' = published)]_vars

\* A page that is not loading gained focus while another page loads in the
\* background.
NotLoadingFrameWitness ==
    /\ ~fatal
    /\ last.h = "OnIsFocusedChanged"
    /\ call = NoCall
    /\ \E p \in PageIds : pages[p].present /\ pages[p].focused
                          /\ pages[p].state = "kLoadedIdle"
    /\ counts.loading_pages = 1
    /\ published = "kBackgroundPageLoading"

\* C16: OnLoadingStateChanged adds the page to the counts when its predicate
\* goes from false to true, takes it out when it goes from true to false, and
\* otherwise leaves the counts and stores nothing.
LoadingStateFrame ==
    [][\A p \in PageIds :
          Notified("OnLoadingStateChanged", p) =>
              LET was_loading == pages[p].state \in {"kLoading", "kLoadedBusy"}
                  is_loading  == pages'[p].state \in {"kLoading", "kLoadedBusy"}
              IN  /\ (~was_loading /\ is_loading) =>
                         counts' = Plus(counts, Membership(pages'[p]))
                  /\ (was_loading /\ ~is_loading) =>
                         counts' = Minus(counts, Membership(pages'[p]))
                  /\ (was_loading = is_loading) =>
                         /\ counts' = counts
                         /\ published' = published
                         /\ last'.stores = 0]_vars

\* The only page went from kLoading to kLoadedBusy, or the other way, and
\* nothing was stored.
LoadingStateFrameWitness ==
    /\ ~fatal
    /\ last.h = "OnLoadingStateChanged"
    /\ last.stores = 0
    /\ last.pre.loading_pages = 1
    /\ \E p \in PageIds :
           /\ pages[p].present /\ pages[p].state = "kLoadedBusy"
           /\ \A q \in PageIds \ {p} : ~pages[q].present

\* C17: a page counts as loading in kLoading and kLoadedBusy and in no other
\* state: with a single page in the graph, in the background, the published
\* scenario is BackgroundPageLoading in these two states and NoPageLoading in
\* the three others.
LoadingPredicate ==
    (attached /\ ~fatal) =>
        \A p \in PageIds :
            (/\ pages[p].present /\ ~pages[p].visible /\ ~pages[p].focused
             /\ \A q \in PageIds \ {p} : ~pages[q].present)
                => published =
                       (IF pages[p].state \in {"kLoading", "kLoadedBusy"}
                        THEN "kBackgroundPageLoading" ELSE "kNoPageLoading")

\* The only page, in the background, went to kLoadedBusy from a state that is
\* not loading.
LoadingPredicateWitness ==
    /\ attached /\ ~fatal
    /\ last.h = "OnLoadingStateChanged"
    /\ last.was = "kNoPageLoading"
    /\ published = "kBackgroundPageLoading"
    /\ \E p \in PageIds :
           /\ pages[p].present /\ pages[p].state = "kLoadedBusy"
           /\ ~pages[p].visible /\ ~pages[p].focused
           /\ \A q \in PageIds \ {p} : ~pages[q].present

\* C19: between the decrement and the increment of a focus or visibility
\* notification for a loading page, every count of a tier that another loading
\* page is in stays at least 1.  (call'.pre holds the counts between the two
\* calls.)
OtherPageHoldsTier ==
    [][\A p \in PageIds :
          (/\ Notified("OnIsFocusedChanged", p) \/ Notified("OnIsVisibleChanged", p)
           /\ pages[p].state \in {"kLoading", "kLoadedBusy"})
              => /\ call'.op = "Increment"
                 /\ \A q \in LoadingPageIds \ {p} :
                        /\ call'.pre.loading_pages >= 1
                        /\ pages[q].visible => call'.pre.visible_loading_pages >= 1
                        /\ pages[q].focused => call'.pre.focused_loading_pages >= 1]_vars

\* A visible loading page lost its visibility next to another visible loading
\* page: between the two calls both tiers were at 1.
OtherPageHoldsTierWitness ==
    /\ ~fatal
    /\ last.h = "OnIsVisibleChanged"
    /\ call.op = "Increment" /\ ~call.visible
    /\ last.pre.visible_loading_pages = 2
    /\ call.pre.visible_loading_pages = 1
    /\ call.pre.loading_pages = 1

\* C20: when the focus flag and the visibility flag of a loading page both
\* change before either notification is handled, the two handlers, in either
\* order, reach no fatal check and leave counts that are exact for the new
\* flags.
SimultaneousChange ==
    last.h = "OnIsFocusedAndIsVisibleChanged" => (~fatal /\ counts = ExactCounts)

\* C21: when every notification reports exactly one change of a tracked page,
\* is delivered before the next change and carries the right previous loading
\* state, and the pages fit the width of the counts, no handler reaches a
\* failed check.
NoFatalWhenWellFormed ==
    MaxPages <= SizeMax => ~fatal

\* Every node of the graph was a loading page, and the last of them left: the
\* decrement took the counts to zero.
NoFatalWhenWellFormedWitness ==
    /\ ~fatal /\ attached
    /\ last.h = "OnBeforePageNodeRemoved"
    /\ call.op = "Decrement" /\ call.visible /\ call.focused
    /\ call.pre.focused_loading_pages = 1
    /\ call.pre.visible_loading_pages = 1
    /\ call.pre.loading_pages = 1
    /\ counts = ZeroCounts
    /\ \A p \in PageIds : ~pages[p].present

\* C22: at the end of every handler that did not fail,
\* visible_loading_pages <= loading_pages and
\* focused_loading_pages <= loading_pages, also with pages that are focused
\* and not visible.
LoadingBoundsTiers ==
    ~fatal =>
        /\ counts.visible_loading_pages <= counts.loading_pages
        /\ counts.focused_loading_pages <= counts.loading_pages

\* Every loading page is focused and none is visible: focused_loading_pages
\* is above visible_loading_pages and equals loading_pages.
LoadingBoundsTiersWitness ==
    /\ ~fatal /\ attached
    /\ last.h \in NotificationHandlers
    /\ counts.loading_pages = MaxPages
    /\ counts.focused_loading_pages = counts.loading_pages
    /\ counts.visible_loading_pages = 0
    /\ counts = ExactCounts

\* C23: when only the observer writes the cell, an attach that follows a
\* detach passes its two checks and counts the pages the graph holds then,
\* whatever notifications the graph failed to deliver before the detach.
ReattachAccepted ==
    last.h = "OnPassedToGraph" =>
        /\ ~fatal /\ attached
        /\ last.pre = ZeroCounts
        /\ last.was = "kNoPageLoading"
        /\ counts = ExactCounts
        /\ published = GetScenario(counts)
        /\ last.stores = 1

\* The observer was attached before, when the graph failed to deliver a
\* notification; attached again, it counted a loading page.
ReattachAcceptedWitness ==
    /\ last.h = "OnPassedToGraph"
    /\ broken > 0
    /\ ~fatal /\ attached
    /\ counts.loading_pages > 0
    /\ published # "kNoPageLoading"

TypeOK ==
    /\ pages \in [PageIds -> PageNodes \cup {AbsentPage}]
    /\ counts \in LoadingCounts
    /\ published \in LoadingScenarios
    /\ attached \in BOOLEAN
    /\ fatal \in BOOLEAN
    /\ run \in [pc : {"idle", "increment", "count", "publish"},
                 h : NotificationHandlers \cup {"none", "OnPassedToGraph", "OnTakenFromGraph"},
                 p : 0 .. MaxPages]
    /\ seen \in [val : LoadingScenarios, completed : BOOLEAN,
                  at : {"none", "idle", "increment", "count", "publish"}]
    /\ readable \subseteq [val : LoadingScenarios, completed : BOOLEAN]
====
